---- MODULE Spec2Model ----
(***************************************************************************)
(* Model of the atlas-go Kafka event consumer (package event, consumer.go):*)
(* the poll loop (StartConsumer / run / pollBatch), the per-partition      *)
(* processing tasks (processPartition / writePartitionedMessages /         *)
(* handleMessages / handleMessage) and the calls they make on the          *)
(* transport (Poll, Pause, Resume, StoreMessage, Assign, Unassign, Close). *)
(***************************************************************************)
EXTENDS Integers, Sequences, FiniteSets, TLC

(***************************************************************************)
(* Bounds of the model                                                     *)
(***************************************************************************)
MaxRecords == 2         \* records the broker delivers in all
MaxErrs == 1            \* kafka.Error poll results the broker delivers
MaxFail == 13           \* kafka.Error poll results in the backoff specification
MaxPartLen == 3         \* batch length in the single-task specification
MaxLiveRecords == 1     \* records delivered in the fair specification
MaxLivePartLen == 2     \* batch length in the fair single-task specification
MaxPollBatchRecords == 3 \* records delivered in the pollBatch specification

Partitions == {1, 2}
TaskIds == {1, 2, 3}
PollKeys == {"", "a"}
Keys == {"", "a", "b"}
PartConcurrency == {0, 1, 2}
PollRecordsConfigs == {-1, 0, 1, 2}

(***************************************************************************)
(* Program constants                                                       *)
(***************************************************************************)
DefaultBatchSize == 64
DefaultMaxPartitionConcurrency == 0
DefaultMaxPollRecords == 64
MaxInterval == 30000
InitialInterval == 500
LongPollTimeout == 5000

(***************************************************************************)
(* Records.  What handleMessage reads of a record is its kind: the groupId *)
(* and isCompactedEvent headers (hg, hc; "absent" when the record has no   *)
(* such header), the components of its topic id, its payload (value) and   *)
(* what the large event store returns for the object key K (store).        *)
(***************************************************************************)
HeaderKeyGroupID == "groupId"
HeaderKeyIsCompactEvent == "isCompactedEvent"
ConsumerGroupID == "svc"

NoEvent == [id |-> "none", group |-> "", content |-> ""]
RawEvents == [id : {"raw"}, group : {"", "SVC", "other"},
              content : {"\"K\"", "{}"}]
StoreEvents == [id : {"big"}, group : {"", "svc", "other"}, content : {"{}"}]

Payloads == {[valid |-> FALSE, event |-> NoEvent]}
               \cup [valid : {TRUE}, event : RawEvents]
StoreResults == {[ok |-> FALSE, event |-> NoEvent]}
                   \cup [ok : {TRUE}, event : StoreEvents]

MsgKinds == [hg : {"absent", "", "svc", "SVC", "other"},
             hc : {"absent", "true", "junk"},
             topic : {<<"t">>, <<"t", "p", "o">>, <<"t", "p", "o", "x">>},
             value : Payloads,
             store : StoreResults]

\* a record without headers whose payload is an event for every group
PlainKind ==
    [hg |-> "absent", hc |-> "absent", topic |-> <<"t">>,
     value |-> [valid |-> TRUE,
                event |-> [id |-> "raw", group |-> "", content |-> "{}"]],
     store |-> [ok |-> FALSE, event |-> NoEvent]]

\* a record whose groupId header names another consumer group
OtherGroupKind == [PlainKind EXCEPT !.hg = "other"]

Kinds == {PlainKind, OtherGroupKind}

(***************************************************************************)
(* Topic configuration: descriptors (scope and name) and pods              *)
(***************************************************************************)
TopicScopes == {"pod", "org", "global", "unknown"}
TopicNames == {"identity", "audit"}
PodNames == {"p1", "p2"}
TopicDescriptors == [scope : TopicScopes, name : TopicNames]
TopicLists ==
    {<<>>} \cup {<<d>> : d \in TopicDescriptors}
           \cup {<<d, e>> : d \in TopicDescriptors,
                             e \in [scope : {"org"}, name : {"audit"}]}
PodLists == {<<>>} \cup {<<p>> : p \in PodNames}
                   \cup {<<p, q>> : p, q \in PodNames}
DefaultTopics == <<[scope |-> "pod", name |-> "identity"]>>
DefaultPods == <<"p1">>

VARIABLES
    pc,             \* position of StartConsumer/run
    retval,         \* what run returned
    subscribed,     \* SubscribeTopics succeeded
    ctxDone,        \* the context is cancelled
    observed,       \* run or pollBatch has taken a <-ctx.Done() branch
    batch,          \* pollBatch's messageBatch
    pollErr,        \* the error pollBatch returned
    lastEv,         \* the result of the consumer.Poll call just made
    pollTimeout,    \* the timeout of the last consumer.Poll
    currentInterval,\* errorBackoff's current interval (ms)
    sleepDuration,  \* the last duration run slept for (ms)
    failStreak,     \* failing pollBatch calls since the last successful one
                    \* (counted up to MaxFail + 1)
    todo,           \* partitions of the batch the range loop has not reached
    paused,         \* transport: paused partitions
    nextOffset,     \* transport: next offset to deliver, per partition
    errs,           \* kafka.Error poll results delivered so far
    stored,         \* transport: offsets handed to StoreMessage, per partition
    closeCount,     \* transport: calls of Close
    topics,         \* transport: what SubscribeTopics was called with
    tasks,          \* the processPartition goroutines
    fatal,          \* log.Fatalf has ended the process
    maxPartitionConcurrency,  \* config.MaxPartitionConcurrency
    maxPollRecords, \* config.MaxPollRecords
    cfgTopics,      \* config.Topics
    cfgPods,        \* config.Pods
    batchSize       \* c.batchSize

vars == <<pc, retval, subscribed, ctxDone, observed, batch, pollErr, lastEv,
          pollTimeout, currentInterval, sleepDuration, failStreak, todo,
          paused, nextOffset, errs, stored, closeCount, topics, tasks, fatal,
          maxPartitionConcurrency, maxPollRecords, cfgTopics, cfgPods,
          batchSize>>

loopVars == <<pc, retval, subscribed, observed, batch, pollErr, lastEv,
              pollTimeout, currentInterval, sleepDuration, failStreak, todo>>
transportVars == <<paused, nextOffset, errs, stored, closeCount, topics>>
configVars == <<maxPartitionConcurrency, maxPollRecords, cfgTopics, cfgPods,
                batchSize>>

Min(a, b) == IF a < b THEN a ELSE b

RECURSIVE SumOver(_, _)
SumOver(f, S) ==
    IF S = {} THEN 0
    ELSE LET p == CHOOSE x \in S : TRUE
         IN f[p] + SumOver(f, S \ {p})

RECURSIVE SumLen(_, _)
SumLen(f, S) ==
    IF S = {} THEN 0
    ELSE LET p == CHOOSE x \in S : TRUE
         IN Len(f[p]) + SumLen(f, S \ {p})

(***************************************************************************)
(* messageBatch                                                            *)
(***************************************************************************)
newMessageBatch == [messages |-> <<>>, messageCount |-> 0]

\* an addMessage that does not count the message
addMessageNoCount(b, msg) ==
    LET tp == msg.tp
        old == IF tp \in DOMAIN b.messages THEN b.messages[tp] ELSE <<>>
    IN [messages |-> [p \in DOMAIN b.messages \cup {tp} |->
                         IF p = tp THEN Append(old, msg) ELSE b.messages[p]],
        messageCount |-> b.messageCount]

\* addMessage for a message whose topic is set
addMessage(b, msg) ==
    LET tp == msg.tp
        old == IF tp \in DOMAIN b.messages THEN b.messages[tp] ELSE <<>>
    IN [messages |-> [p \in DOMAIN b.messages \cup {tp} |->
                         IF p = tp THEN Append(old, msg) ELSE b.messages[p]],
        messageCount |-> b.messageCount + 1]

(***************************************************************************)
(* errorBackoff: exponential backoff, multiplier 3/2, capped by MaxInterval *)
(***************************************************************************)
NextBackOff(cur) == cur
IncrementCurrentInterval(cur) == Min((cur * 3) \div 2, MaxInterval)
ResetBackOff == InitialInterval

BatchSizeOf(configured) ==
    IF configured <= 0 THEN DefaultBatchSize ELSE configured

NoTask == [pc |-> "none"]

\* records the transport has delivered so far
Delivered == SumOver(nextOffset, Partitions)

InitCommon ==
    /\ retval = "none"
    /\ subscribed = FALSE
    /\ ctxDone = FALSE
    /\ observed = FALSE
    /\ batch = newMessageBatch
    /\ pollErr = "nil"
    /\ lastEv = "none"
    /\ pollTimeout = 0
    /\ currentInterval = InitialInterval
    /\ sleepDuration = 0
    /\ failStreak = 0
    /\ todo = {}
    /\ errs = 0
    /\ stored = [p \in Partitions |-> <<>>]
    /\ closeCount = 0
    /\ topics = <<>>
    /\ fatal = FALSE

\* newKafkaEventConsumer succeeded with the default configuration;
\* StartConsumer is about to call run
Init ==
    /\ InitCommon
    /\ pc = "subscribe"
    /\ paused = {}
    /\ nextOffset = [p \in Partitions |-> 0]
    /\ tasks = [t \in TaskIds |-> NoTask]
    /\ maxPartitionConcurrency = DefaultMaxPartitionConcurrency
    /\ maxPollRecords = DefaultMaxPollRecords
    /\ cfgTopics = DefaultTopics
    /\ cfgPods = DefaultPods
    /\ batchSize = BatchSizeOf(maxPollRecords)

(***************************************************************************)
(* The context                                                             *)
(***************************************************************************)
Cancel ==
    /\ ~fatal
    /\ ~ctxDone
    /\ ctxDone' = TRUE
    /\ UNCHANGED <<loopVars, transportVars, tasks, fatal, configVars>>

(***************************************************************************)
(* run                                                                     *)
(***************************************************************************)
(***************************************************************************)
(* Topic patterns.  A string is modelled as the sequence of the pieces     *)
(* fmt.Sprintf puts together.                                              *)
(***************************************************************************)
\* a buildTopicRegexes that gives an org topic one pattern for all pods
buildTopicRegexesOrgOnce(topic, pods) ==
    CASE topic.scope = "global" -> <<<<topic.name>>>>
      [] topic.scope = "pod" ->
            [i \in DOMAIN pods |-> <<topic.name, "__", pods[i]>>]
      [] topic.scope = "org" -> <<<<"^", topic.name, "__", ".+">>>>
      [] OTHER -> <<>>

\* buildTopicRegexes
buildTopicRegexes(topic, pods) ==
    CASE topic.scope = "global" -> <<<<topic.name>>>>
      [] topic.scope = "pod" ->
            [i \in DOMAIN pods |-> <<topic.name, "__", pods[i]>>]
      [] topic.scope = "org" ->
            [i \in DOMAIN pods |->
                <<"^", topic.name, "__", pods[i], "__", ".+">>]
      [] OTHER -> <<>>

\* run lines 148-151: the patterns of all configured topics
RECURSIVE TopicPatterns(_, _)
TopicPatterns(descriptors, pods) ==
    IF descriptors = <<>> THEN <<>>
    ELSE buildTopicRegexes(Head(descriptors), pods)
            \o TopicPatterns(Tail(descriptors), pods)

\* c.consumer.SubscribeTopics(topics, nil)
Subscribe ==
    /\ ~fatal
    /\ pc = "subscribe"
    /\ \E ok \in BOOLEAN :
         IF ok THEN /\ subscribed' = TRUE
                    /\ pc' = "loop"
                    /\ retval' = retval
                    /\ topics' = TopicPatterns(cfgTopics, cfgPods)
               ELSE /\ subscribed' = FALSE
                    /\ pc' = "returned"
                    /\ retval' = "subscribeErr"
                    /\ topics' = topics
    /\ UNCHANGED <<ctxDone, observed, batch, pollErr, lastEv, pollTimeout,
                   currentInterval, sleepDuration, failStreak, todo,
                   paused, nextOffset, errs, stored, closeCount,
                   tasks, fatal, configVars>>

\* a run whose loop does not look at the context
LoopTopNoCheck ==
    /\ ~fatal
    /\ pc = "loop"
    /\ pc' = "pbCheck"
    /\ batch' = newMessageBatch
    /\ UNCHANGED <<retval, observed, subscribed, ctxDone, pollErr, lastEv,
                   pollTimeout, currentInterval, sleepDuration, failStreak,
                   todo, transportVars, tasks, fatal, configVars>>

\* the select at the top of the for loop, then the call of pollBatch
LoopTop ==
    /\ ~fatal
    /\ pc = "loop"
    /\ IF ctxDone
       THEN /\ pc' = "returned"
            /\ retval' = "ctxErr"
            /\ observed' = TRUE
            /\ batch' = batch
       ELSE /\ pc' = "pbCheck"
            /\ retval' = retval
            /\ observed' = observed
            /\ batch' = newMessageBatch
    /\ UNCHANGED <<subscribed, ctxDone, pollErr, lastEv, pollTimeout,
                   currentInterval, sleepDuration, failStreak, todo,
                   transportVars, tasks, fatal, configVars>>

(***************************************************************************)
(* The transport (kafka.Consumer): Pause and Resume change the set of      *)
(* paused partitions, Poll delivers no record of a paused partition, and   *)
(* Assign and Unassign leave the paused partitions as they are.            *)
(***************************************************************************)
TransportPause(ps, tp) == ps \cup {tp}
TransportResume(ps, tp) == ps \ {tp}
Deliverable(ps) == Partitions \ ps

(***************************************************************************)
(* pollBatch                                                               *)
(***************************************************************************)
\* a pollBatch whose loop condition is messageCount <= batchSize
PbCheckOffByOne ==
    /\ ~fatal
    /\ pc = "pbCheck"
    /\ IF ~(batch.messageCount <= batchSize)
       THEN /\ pc' = "polled"
            /\ pollErr' = "nil"
            /\ observed' = observed
            /\ pollTimeout' = pollTimeout
       ELSE IF ctxDone
       THEN /\ pc' = "polled"
            /\ pollErr' = "ctx"
            /\ observed' = TRUE
            /\ pollTimeout' = pollTimeout
       ELSE /\ pc' = "pbPoll"
            /\ pollErr' = pollErr
            /\ observed' = observed
            /\ pollTimeout' = IF batch.messageCount > 0 THEN 0 ELSE LongPollTimeout
    /\ lastEv' = "none"
    /\ UNCHANGED <<retval, subscribed, ctxDone, batch, currentInterval,
                   sleepDuration, failStreak, todo, transportVars, tasks,
                   fatal, configVars>>

\* the loop condition and the cancellation check of one iteration
PbCheck ==
    /\ ~fatal
    /\ pc = "pbCheck"
    /\ IF ~(batch.messageCount < batchSize)
       THEN /\ pc' = "polled"
            /\ pollErr' = "nil"
            /\ observed' = observed
            /\ pollTimeout' = pollTimeout
       ELSE IF ctxDone
       THEN /\ pc' = "polled"
            /\ pollErr' = "ctx"
            /\ observed' = TRUE
            /\ pollTimeout' = pollTimeout
       ELSE /\ pc' = "pbPoll"
            /\ pollErr' = pollErr
            /\ observed' = observed
            /\ pollTimeout' = IF batch.messageCount > 0 THEN 0 ELSE LongPollTimeout
    /\ lastEv' = "none"
    /\ UNCHANGED <<retval, subscribed, ctxDone, batch, currentInterval,
                   sleepDuration, failStreak, todo, transportVars, tasks,
                   fatal, configVars>>

PollFrame ==
    UNCHANGED <<retval, subscribed, ctxDone, observed, pollTimeout,
                currentInterval, sleepDuration, failStreak, todo, stored,
                closeCount, topics, paused, tasks, fatal, configVars>>

\* consumer.Poll returned nil: break
PollNil ==
    /\ ~fatal
    /\ pc = "pbPoll"
    /\ lastEv' = "nil"
    /\ pc' = "polled"
    /\ pollErr' = "nil"
    /\ UNCHANGED <<batch, nextOffset, errs>>
    /\ PollFrame

\* consumer.Poll returned a *kafka.Message without partition error and with a
\* topic: the record is added to the batch.  The transport delivers records of
\* partitions that are not paused, in offset order.
PollMessageB(bound) ==
    /\ ~fatal
    /\ pc = "pbPoll"
    /\ \E p \in Deliverable(paused), k \in PollKeys, kd \in Kinds :
         /\ Delivered < bound
         /\ batch' = addMessage(batch, [tp |-> p, offset |-> nextOffset[p],
                                        key |-> k, kind |-> kd])
         /\ nextOffset' = [nextOffset EXCEPT ![p] = @ + 1]
    /\ lastEv' = "message"
    /\ pc' = "pbCheck"
    /\ UNCHANGED <<pollErr, errs>>
    /\ PollFrame

PollMessage == PollMessageB(MaxRecords)

\* consumer.Poll returned a *kafka.Message with TopicPartition.Error set, or
\* one whose topic is nil (addMessage fails): logged, batch unchanged
PollBadMessage ==
    /\ ~fatal
    /\ pc = "pbPoll"
    /\ \E e \in {"partitionError", "noTopic"} : lastEv' = e
    /\ pc' = "pbCheck"
    /\ UNCHANGED <<batch, pollErr, nextOffset, errs>>
    /\ PollFrame

\* a pollBatch that returns the error whatever the batch holds
ErrorResultAlwaysError(b) == "kafka"

\* case kafka.Error: a partial batch is returned without error
ErrorResult(b) == IF b.messageCount > 0 THEN "nil" ELSE "kafka"

\* consumer.Poll returned a kafka.Error
PollKafkaErrorB(bound) ==
    /\ ~fatal
    /\ pc = "pbPoll"
    /\ errs < bound
    /\ errs' = errs + 1
    /\ lastEv' = "error"
    /\ pc' = "polled"
    /\ pollErr' = ErrorResult(batch)
    /\ UNCHANGED <<batch, nextOffset>>
    /\ PollFrame

PollKafkaError == PollKafkaErrorB(MaxErrs)

\* consumer.Poll returned kafka.AssignedPartitions: consumer.Assign, whose
\* error is logged; the batch and the paused partitions are not touched
PollAssigned ==
    /\ ~fatal
    /\ pc = "pbPoll"
    /\ lastEv' = "assigned"
    /\ pc' = "pbCheck"
    /\ UNCHANGED <<batch, pollErr, nextOffset, errs>>
    /\ PollFrame

\* consumer.Poll returned kafka.RevokedPartitions: consumer.Unassign, whose
\* error is logged; the batch and the paused partitions are not touched
PollRevoked ==
    /\ ~fatal
    /\ pc = "pbPoll"
    /\ lastEv' = "revoked"
    /\ pc' = "pbCheck"
    /\ UNCHANGED <<batch, pollErr, nextOffset, errs>>
    /\ PollFrame

\* consumer.Poll returned *kafka.Stats: go c.reportConsumerLag (metrics only)
PollStats ==
    /\ ~fatal
    /\ pc = "pbPoll"
    /\ lastEv' = "stats"
    /\ pc' = "pbCheck"
    /\ UNCHANGED <<batch, pollErr, nextOffset, errs>>
    /\ PollFrame

(***************************************************************************)
(* run, after pollBatch returned                                           *)
(***************************************************************************)
\* a run that does not reset the backoff after a successful poll
BackoffKept(cur) == cur

\* run line 172: c.errorBackoff.Reset()
BackoffAfterSuccess(cur) == ResetBackOff

\* a run that takes the "continue" for an empty batch before the Reset
AfterPollEmptyNoReset ==
    /\ ~fatal
    /\ pc = "polled"
    /\ IF pollErr # "nil"
       THEN /\ sleepDuration' = NextBackOff(currentInterval)
            /\ currentInterval' = IncrementCurrentInterval(currentInterval)
            /\ failStreak' = Min(failStreak + 1, MaxFail + 1)
            /\ pc' = "sleep"
            /\ todo' = todo
       ELSE /\ sleepDuration' = sleepDuration
            /\ failStreak' = 0
            /\ IF batch.messageCount = 0
               THEN /\ pc' = "loop"
                    /\ todo' = todo
                    /\ currentInterval' = currentInterval
               ELSE /\ pc' = "dispatch"
                    /\ todo' = DOMAIN batch.messages
                    /\ currentInterval' = BackoffAfterSuccess(currentInterval)
    /\ lastEv' = "none"
    /\ UNCHANGED <<retval, subscribed, ctxDone, observed, batch, pollErr,
                   pollTimeout, transportVars, tasks, fatal, configVars>>

\* a run that returns the error of pollBatch instead of retrying
AfterPollReturnsError ==
    /\ ~fatal
    /\ pc = "polled"
    /\ IF pollErr # "nil"
       THEN /\ pc' = "returned"
            /\ retval' = "pollErr"
            /\ UNCHANGED <<sleepDuration, currentInterval, failStreak, todo>>
       ELSE /\ currentInterval' = ResetBackOff
            /\ failStreak' = 0
            /\ retval' = retval
            /\ sleepDuration' = sleepDuration
            /\ IF batch.messageCount = 0
               THEN pc' = "loop" /\ todo' = todo
               ELSE pc' = "dispatch" /\ todo' = DOMAIN batch.messages
    /\ lastEv' = "none"
    /\ UNCHANGED <<subscribed, ctxDone, observed, batch, pollErr,
                   pollTimeout, transportVars, tasks, fatal, configVars>>

\* a run that dispatches a batch that came with an error
AfterPollKeepsBatch ==
    /\ ~fatal
    /\ pc = "polled"
    /\ IF pollErr # "nil" /\ batch.messageCount = 0
       THEN /\ sleepDuration' = NextBackOff(currentInterval)
            /\ currentInterval' = IncrementCurrentInterval(currentInterval)
            /\ failStreak' = Min(failStreak + 1, MaxFail + 1)
            /\ pc' = "sleep"
            /\ todo' = todo
       ELSE /\ currentInterval' = BackoffAfterSuccess(currentInterval)
            /\ sleepDuration' = sleepDuration
            /\ failStreak' = 0
            /\ IF batch.messageCount = 0
               THEN pc' = "loop" /\ todo' = todo
               ELSE pc' = "dispatch" /\ todo' = DOMAIN batch.messages
    /\ lastEv' = "none"
    /\ UNCHANGED <<retval, subscribed, ctxDone, observed, batch, pollErr,
                   pollTimeout, transportVars, tasks, fatal, configVars>>

AfterPoll ==
    /\ ~fatal
    /\ pc = "polled"
    /\ IF pollErr # "nil"
       THEN /\ sleepDuration' = NextBackOff(currentInterval)
            /\ currentInterval' = IncrementCurrentInterval(currentInterval)
            /\ failStreak' = Min(failStreak + 1, MaxFail + 1)
            /\ pc' = "sleep"
            /\ todo' = todo
       ELSE /\ currentInterval' = BackoffAfterSuccess(currentInterval)
            /\ sleepDuration' = sleepDuration
            /\ failStreak' = 0
            /\ IF batch.messageCount = 0
               THEN pc' = "loop" /\ todo' = todo
               ELSE pc' = "dispatch" /\ todo' = DOMAIN batch.messages
    /\ lastEv' = "none"
    /\ UNCHANGED <<retval, subscribed, ctxDone, observed, batch, pollErr,
                   pollTimeout, transportVars, tasks, fatal, configVars>>

\* atlas.SleepWithContext returns: the timer fired or the context is done
SleepWithContext ==
    /\ ~fatal
    /\ pc = "sleep"
    /\ pc' = "loop"
    /\ UNCHANGED <<retval, subscribed, ctxDone, observed, batch, pollErr,
                   lastEv, pollTimeout, currentInterval, sleepDuration,
                   failStreak, todo, transportVars, tasks, fatal, configVars>>

(***************************************************************************)
(* processPartition: the state of one goroutine                            *)
(***************************************************************************)
\* a processPartition that always starts one worker for each record
WorkerCountPerRecord(conc, messages) == Len(messages)

\* a processPartition that starts config.MaxPartitionConcurrency workers as is
WorkerCountNoDefault(conc, messages) == conc

\* workerCount of processPartition
WorkerCount(conc, messages) == IF conc < 1 THEN Len(messages) ELSE conc

IdleWorker == [st |-> "idle", run |-> <<>>, i |-> 0]

NewTask(tp, messages, conc) ==
    [pc |-> "write",
     tp |-> tp,
     messages |-> messages,
     wi |-> 1,
     byKey |-> <<>>,
     emitted |-> {},
     sent |-> <<>>,
     workers |-> [w \in 1..WorkerCount(conc, messages) |-> IdleWorker],
     status |-> [i \in 1..Len(messages) |->
                    [st |-> "pending", calls |-> 0, ctxAtCall |-> FALSE,
                     arg |-> NoEvent, downloads |-> 0, log |-> "none",
                     storeErr |-> FALSE]],
     si |-> 1]

Active(t) == tasks[t] # NoTask
FreeSlots == {t \in TaskIds : ~Active(t)}

\* a run that starts the goroutine without pausing the partition
PausedByRunSkipped(ps, tp) == ps

\* run line 180: c.pause(ctx, topicPartition) before the goroutine is started
PausedByRun(ps, tp) == TransportPause(ps, tp)

\* a run that waits for the goroutines in flight before it pauses a
\* partition and starts the next one
DispatchWaitsForTasks ==
    /\ ~fatal
    /\ pc = "dispatch"
    /\ FreeSlots = TaskIds
    /\ \E tp \in todo, pauseOk \in BOOLEAN :
         IF pauseOk
         THEN /\ FreeSlots # {}
              /\ paused' = PausedByRun(paused, tp)
              /\ LET t == CHOOSE x \in FreeSlots : \A y \in FreeSlots : x <= y
                 IN tasks' = [tasks EXCEPT ![t] =
                        NewTask(tp, batch.messages[tp], maxPartitionConcurrency)]
              /\ todo' = todo \ {tp}
              /\ pc' = IF todo' = {} THEN "loop" ELSE "dispatch"
              /\ fatal' = fatal
         ELSE /\ fatal' = TRUE
              /\ UNCHANGED <<paused, tasks, todo, pc>>
    /\ UNCHANGED <<retval, subscribed, ctxDone, observed, batch, pollErr,
                   lastEv, pollTimeout, currentInterval, sleepDuration,
                   failStreak, nextOffset, errs, stored, closeCount, topics,
                   configVars>>

\* a run that returns the error of Pause to its caller
DispatchReturnsPauseError ==
    /\ ~fatal
    /\ pc = "dispatch"
    /\ \E tp \in todo, pauseOk \in BOOLEAN :
         IF pauseOk
         THEN /\ FreeSlots # {}
              /\ paused' = PausedByRun(paused, tp)
              /\ LET t == CHOOSE x \in FreeSlots : \A y \in FreeSlots : x <= y
                 IN tasks' = [tasks EXCEPT ![t] =
                        NewTask(tp, batch.messages[tp], maxPartitionConcurrency)]
              /\ todo' = todo \ {tp}
              /\ pc' = IF todo' = {} THEN "loop" ELSE "dispatch"
              /\ retval' = retval
         ELSE /\ pc' = "returned"
              /\ retval' = "pauseErr"
              /\ UNCHANGED <<paused, tasks, todo>>
    /\ UNCHANGED <<subscribed, ctxDone, observed, batch, pollErr,
                   lastEv, pollTimeout, currentInterval, sleepDuration,
                   failStreak, nextOffset, errs, stored, closeCount, topics,
                   fatal, configVars>>

\* one iteration of "for tp, messages := range batch.messages"
Dispatch ==
    /\ ~fatal
    /\ pc = "dispatch"
    /\ \E tp \in todo, pauseOk \in BOOLEAN :
         IF pauseOk
         THEN /\ FreeSlots # {}
              /\ paused' = PausedByRun(paused, tp)
              /\ LET t == CHOOSE x \in FreeSlots : \A y \in FreeSlots : x <= y
                 IN tasks' = [tasks EXCEPT ![t] =
                        NewTask(tp, batch.messages[tp], maxPartitionConcurrency)]
              /\ todo' = todo \ {tp}
              /\ pc' = IF todo' = {} THEN "loop" ELSE "dispatch"
              /\ fatal' = fatal
         ELSE /\ fatal' = TRUE
              /\ UNCHANGED <<paused, tasks, todo, pc>>
    /\ UNCHANGED <<retval, subscribed, ctxDone, observed, batch, pollErr,
                   lastEv, pollTimeout, currentInterval, sleepDuration,
                   failStreak, nextOffset, errs, stored, closeCount, topics,
                   configVars>>

\* StartConsumer: the deferred c.close(ctx) after run returned
Close ==
    /\ ~fatal
    /\ pc = "returned"
    /\ pc' = "closed"
    /\ closeCount' = closeCount + 1
    /\ UNCHANGED <<retval, subscribed, ctxDone, observed, batch, pollErr,
                   lastEv, pollTimeout, currentInterval, sleepDuration,
                   failStreak, todo, paused, nextOffset, errs, stored,
                   topics,
                   tasks, fatal, configVars>>

TaskFrame ==
    UNCHANGED <<loopVars, ctxDone, nextOffset, errs, closeCount, topics,
                fatal, configVars>>

\* a grouper that sends every record as a run of its own
IsKeylessAlways(msg) == TRUE

\* a grouper that puts the records without key into one run
IsKeylessNever(msg) == FALSE

\* writePartitionedMessages line 235: the record has no key
IsKeyless(msg) == msg.key = ""

\* a grouper that puts each record at the front of its key's list
PrependByKey(byKey, key, idx) ==
    [k \in DOMAIN byKey \cup {key} |->
        IF k = key
        THEN <<idx>> \o (IF key \in DOMAIN byKey THEN byKey[key] ELSE <<>>)
        ELSE byKey[k]]

\* byKey[key] = append(byKey[key], msg); records are named by their index
AppendByKey(byKey, key, idx) ==
    [k \in DOMAIN byKey \cup {key} |->
        IF k = key
        THEN Append(IF key \in DOMAIN byKey THEN byKey[key] ELSE <<>>, idx)
        ELSE byKey[k]]

StartRun(run) == [st |-> "run", run |-> run, i |-> 1]

\* first loop of writePartitionedMessages, a keyed record
WriteKeyed(t) ==
    /\ ~fatal
    /\ Active(t)
    /\ LET T == tasks[t] IN
         /\ T.pc = "write"
         /\ T.wi <= Len(T.messages)
         /\ ~IsKeyless(T.messages[T.wi])
         /\ tasks' = [tasks EXCEPT ![t].byKey =
                          AppendByKey(T.byKey, T.messages[T.wi].key, T.wi),
                                   ![t].wi = T.wi + 1]
    /\ UNCHANGED <<paused, stored>>
    /\ TaskFrame

\* first loop of writePartitionedMessages, a keyless record: the send on the
\* unbuffered channel completes when a worker receives it
SendSingleton(t, w) ==
    /\ ~fatal
    /\ Active(t)
    /\ LET T == tasks[t] IN
         /\ T.pc = "write"
         /\ T.wi <= Len(T.messages)
         /\ IsKeyless(T.messages[T.wi])
         /\ w \in DOMAIN T.workers
         /\ T.workers[w].st = "idle"
         /\ tasks' = [tasks EXCEPT ![t].workers[w] = StartRun(<<T.wi>>),
                                   ![t].sent = Append(@, <<T.wi>>),
                                   ![t].wi = T.wi + 1]
    /\ UNCHANGED <<paused, stored>>
    /\ TaskFrame

\* second loop of writePartitionedMessages: the run of one key, in map order
SendKeyRun(t, w) ==
    /\ ~fatal
    /\ Active(t)
    /\ LET T == tasks[t] IN
         /\ T.pc = "write"
         /\ T.wi > Len(T.messages)
         /\ w \in DOMAIN T.workers
         /\ T.workers[w].st = "idle"
         /\ \E k \in DOMAIN T.byKey \ T.emitted :
              tasks' = [tasks EXCEPT ![t].workers[w] = StartRun(T.byKey[k]),
                                     ![t].sent = Append(@, T.byKey[k]),
                                     ![t].emitted = T.emitted \cup {k}]
    /\ UNCHANGED <<paused, stored>>
    /\ TaskFrame

\* strings.ToLower on the group ids of the model
ToLower(str) == IF str = "SVC" THEN "svc" ELSE str

\* a comparison of group ids that distinguishes upper and lower case
EqualExact(a, b) == a = b

\* strings.EqualFold
EqualFold(a, b) == ToLower(a) = ToLower(b)

\* getHeader: the value of the header, "" when the record has none
getHeader(kind, key) ==
    LET v == IF key = HeaderKeyGroupID THEN kind.hg ELSE kind.hc
    IN IF v = "absent" THEN "" ELSE v

\* strconv.ParseBool, whose error getHeaderBool drops
ParseBool(str) == str \in {"1", "t", "T", "TRUE", "true", "True"}

getHeaderBool(kind, key) == ParseBool(getHeader(kind, key))

\* ParseTopic: strings.Split(id, "__") gave one, two or three components
ParseTopic(id) == Len(id) \in {1, 2, 3}

\* json.Unmarshal of ContentJSON into a string
UnmarshalString(content) ==
    IF content = "\"K\"" THEN [ok |-> TRUE, str |-> "K"]
    ELSE [ok |-> FALSE, str |-> ""]

\* largeEventStore.Download for the object key
Download(kind, objectKey) == kind.store

ToEventError(n) == [ok |-> FALSE, event |-> NoEvent, downloads |-> n]

\* a toEvent that hands on the placeholder of a compacted event
toEventNoDownload(kind) ==
    IF ~kind.value.valid THEN ToEventError(0)
    ELSE [ok |-> TRUE, event |-> kind.value.event, downloads |-> 0]

\* a toEvent that falls back to the placeholder when the download fails
toEventFallsBack(kind) ==
    IF ~kind.value.valid THEN ToEventError(0)
    ELSE IF ~getHeaderBool(kind, HeaderKeyIsCompactEvent)
    THEN [ok |-> TRUE, event |-> kind.value.event, downloads |-> 0]
    ELSE LET k == UnmarshalString(kind.value.event.content) IN
         IF ~k.ok THEN ToEventError(0)
         ELSE LET d == Download(kind, k.str) IN
              IF ~d.ok
              THEN [ok |-> TRUE, event |-> kind.value.event, downloads |-> 1]
              ELSE [ok |-> TRUE, event |-> d.event, downloads |-> 1]

\* toEvent
toEvent(kind) ==
    IF ~kind.value.valid THEN ToEventError(0)
    ELSE IF ~getHeaderBool(kind, HeaderKeyIsCompactEvent)
    THEN [ok |-> TRUE, event |-> kind.value.event, downloads |-> 0]
    ELSE LET k == UnmarshalString(kind.value.event.content) IN
         IF ~k.ok THEN ToEventError(0)
         ELSE LET d == Download(kind, k.str) IN
              IF ~d.ok THEN ToEventError(1)
              ELSE [ok |-> TRUE, event |-> d.event, downloads |-> 1]

NotInvoked(n, lg) ==
    [invoke |-> FALSE, event |-> NoEvent, downloads |-> n, log |-> lg]

\* handleMessage up to the call of the handler: whether the handler is
\* invoked and with which event, the downloads made and what is logged
HandleMessage(msg) ==
    LET kind == msg.kind
        groupID == getHeader(kind, HeaderKeyGroupID)
    IN IF groupID # "" /\ ~EqualFold(groupID, ConsumerGroupID)
       THEN NotInvoked(0, "none")
       ELSE IF ~ParseTopic(kind.topic)
       THEN NotInvoked(0, "error")
       ELSE LET r == toEvent(kind) IN
            IF ~r.ok
            THEN NotInvoked(r.downloads, "error")
            ELSE IF r.event.group # ""
                    /\ ~EqualFold(r.event.group, ConsumerGroupID)
            THEN NotInvoked(r.downloads, "warn")
            ELSE [invoke |-> TRUE, event |-> r.event,
                  downloads |-> r.downloads, log |-> "none"]

\* handleMessage lines 336-362: the record reaches handler.HandleEvent
PassesChecks(msg) == HandleMessage(msg).invoke

\* handleMessages: the worker moves to the next record of its run
Advance(wk) ==
    IF wk.i < Len(wk.run)
    THEN [wk EXCEPT !.st = "run", !.i = wk.i + 1]
    ELSE IdleWorker

\* a handleMessages that gives up its run when the handler fails
AbortRunOnError(wk, res) == IF res = "failed" THEN IdleWorker ELSE Advance(wk)

\* a handleMessages that calls the handler again when it fails
RetryOnError(wk, res) ==
    IF res = "failed" THEN [wk EXCEPT !.st = "run"] ELSE Advance(wk)

\* handleMessage logs the handler's error and returns nothing, so that
\* handleMessages goes on with the next record whatever the result
AfterHandler(wk, res) == Advance(wk)

\* handleMessage returns before the handler is called
HandleSkip(t, w) ==
    /\ ~fatal
    /\ Active(t)
    /\ LET T == tasks[t] IN
         /\ w \in DOMAIN T.workers
         /\ T.workers[w].st = "run"
         /\ LET m == T.workers[w].run[T.workers[w].i] IN
              /\ ~PassesChecks(T.messages[m])
              /\ tasks' = [tasks EXCEPT
                     ![t].workers[w] = Advance(T.workers[w]),
                     ![t].status[m].st = "skipped",
                     ![t].status[m].downloads =
                         @ + HandleMessage(T.messages[m]).downloads,
                     ![t].status[m].log = HandleMessage(T.messages[m]).log]
    /\ UNCHANGED <<paused, stored>>
    /\ TaskFrame

\* handleMessage calls handler.HandleEvent(ctx, topic, event); ctxAtCall is
\* the state of the context the handler is given
HandlerCall(t, w) ==
    /\ ~fatal
    /\ Active(t)
    /\ LET T == tasks[t] IN
         /\ w \in DOMAIN T.workers
         /\ T.workers[w].st = "run"
         /\ LET m == T.workers[w].run[T.workers[w].i] IN
              /\ PassesChecks(T.messages[m])
              /\ tasks' = [tasks EXCEPT
                     ![t].workers[w].st = "call",
                     ![t].status[m].st = "inHandler",
                     ![t].status[m].calls = @ + 1,
                     ![t].status[m].ctxAtCall = ctxDone,
                     ![t].status[m].arg = HandleMessage(T.messages[m]).event,
                     ![t].status[m].downloads =
                         @ + HandleMessage(T.messages[m]).downloads]
    /\ UNCHANGED <<paused, stored>>
    /\ TaskFrame

\* handler.HandleEvent returns nil or an error; the error is only logged
HandlerReturn(t, w) ==
    /\ ~fatal
    /\ Active(t)
    /\ LET T == tasks[t] IN
         /\ w \in DOMAIN T.workers
         /\ T.workers[w].st = "call"
         /\ LET m == T.workers[w].run[T.workers[w].i] IN
              \E res \in {"ok", "failed"} :
                tasks' = [tasks EXCEPT ![t].workers[w] =
                                           AfterHandler(T.workers[w], res),
                                       ![t].status[m].st = res]
    /\ UNCHANGED <<paused, stored>>
    /\ TaskFrame

\* a processPartition that calls wg.Wait() before close(partitions): no
\* worker leaves its range loop
BarrierBeforeClose(T) == FALSE

\* a processPartition that does not wait for its workers
BarrierNoWait(T) == TRUE

\* wg.Wait() returns when every worker has called wg.Done(): each worker is
\* back at the receive of its range loop, which the closed channel ends
BarrierPassed(T) == \A w \in DOMAIN T.workers : T.workers[w].st = "idle"

\* writePartitionedMessages has returned: close(partitions), the workers leave
\* their range loops, wg.Wait() returns
Barrier(t) ==
    /\ ~fatal
    /\ Active(t)
    /\ LET T == tasks[t] IN
         /\ T.pc = "write"
         /\ T.wi > Len(T.messages)
         /\ T.emitted = DOMAIN T.byKey
         /\ BarrierPassed(T)
         /\ tasks' = [tasks EXCEPT ![t].pc = "store"]
    /\ UNCHANGED <<paused, stored>>
    /\ TaskFrame

\* a store loop that leaves out the records the handler failed for or did
\* not get
StoreMessageHandledOnly(t) ==
    /\ ~fatal
    /\ Active(t)
    /\ LET T == tasks[t] IN
         /\ T.pc = "store"
         /\ \E ok \in BOOLEAN :
              /\ stored' = [stored EXCEPT ![T.tp] =
                                IF T.status[T.si].st = "ok"
                                THEN Append(@, T.messages[T.si].offset) ELSE @]
              /\ tasks' = [tasks EXCEPT ![t].si = T.si + 1,
                                        ![t].status[T.si].storeErr = ~ok,
                                        ![t].pc = IF T.si = Len(T.messages)
                                                  THEN "resume" ELSE "store"]
    /\ UNCHANGED <<paused>>
    /\ TaskFrame

\* a store loop that ends at the first error of consumer.StoreMessage
StoreMessageStopsOnError(t) ==
    /\ ~fatal
    /\ Active(t)
    /\ LET T == tasks[t] IN
         /\ T.pc = "store"
         /\ stored' = [stored EXCEPT ![T.tp] =
                           Append(@, T.messages[T.si].offset)]
         /\ \E ok \in BOOLEAN :
              tasks' = [tasks EXCEPT ![t].si = T.si + 1,
                                     ![t].status[T.si].storeErr = ~ok,
                                     ![t].pc = IF T.si = Len(T.messages) \/ ~ok
                                               THEN "resume" ELSE "store"]
    /\ UNCHANGED <<paused>>
    /\ TaskFrame

\* one iteration of the loop over messages calling c.storeMessage: stored
\* holds the offsets consumer.StoreMessage was called with, storeErr whether
\* the call returned an error, which storeMessage logs
StoreMessage(t) ==
    /\ ~fatal
    /\ Active(t)
    /\ LET T == tasks[t] IN
         /\ T.pc = "store"
         /\ stored' = [stored EXCEPT ![T.tp] =
                           Append(@, T.messages[T.si].offset)]
         /\ \E ok \in BOOLEAN :
              tasks' = [tasks EXCEPT ![t].si = T.si + 1,
                                     ![t].status[T.si].storeErr = ~ok,
                                     ![t].pc = IF T.si = Len(T.messages)
                                               THEN "resume" ELSE "store"]
    /\ UNCHANGED <<paused>>
    /\ TaskFrame

\* a processPartition that returns as soon as the context is cancelled
ResumeOnCancel(T) == T.pc = "resume" \/ ctxDone

\* a processPartition whose resume is not deferred to its end
ResumeEarly(T) == T.pc \in {"write", "store", "resume"}

\* the deferred c.resume(ctx, topicPartition), then the goroutine ends
ResumeReady(T) == T.pc = "resume"

Resume(t) ==
    /\ ~fatal
    /\ Active(t)
    /\ ResumeReady(tasks[t])
    /\ \E resumeOk \in BOOLEAN :
         IF resumeOk
         THEN /\ paused' = TransportResume(paused, tasks[t].tp)
              /\ tasks' = [tasks EXCEPT ![t] = NoTask]
              /\ fatal' = fatal
         ELSE /\ fatal' = TRUE
              /\ UNCHANGED <<paused, tasks>>
    /\ UNCHANGED <<loopVars, ctxDone, nextOffset, errs, stored,
                   closeCount, topics, configVars>>

WorkerIds == {1, 2, 3}

TaskStep ==
    \E t \in TaskIds :
        \/ WriteKeyed(t)
        \/ Barrier(t)
        \/ StoreMessage(t)
        \/ Resume(t)
        \/ \E w \in WorkerIds :
              \/ SendSingleton(t, w)
              \/ SendKeyRun(t, w)
              \/ HandleSkip(t, w)
              \/ HandlerCall(t, w)
              \/ HandlerReturn(t, w)

Next ==
    \/ Cancel
    \/ Subscribe
    \/ LoopTop
    \/ PbCheck
    \/ PollNil
    \/ PollMessage
    \/ PollBadMessage
    \/ PollKafkaError
    \/ PollAssigned
    \/ PollRevoked
    \/ PollStats
    \/ AfterPoll
    \/ SleepWithContext
    \/ Dispatch
    \/ Close
    \/ TaskStep

\* the consumer with its default configuration
Spec == Init /\ [][Next]_vars

(***************************************************************************)
(* One processPartition call: run has paused partition 1 and started the   *)
(* goroutine for a batch of up to MaxPartLen records; only the goroutine   *)
(* and its workers take steps.                                             *)
(***************************************************************************)
RecordsOfLen(n) ==
    [1..n -> [key : Keys, kind : Kinds]]

BatchOf(p, recs) ==
    [i \in DOMAIN recs |-> [tp |-> p, offset |-> i - 1,
                            key |-> recs[i].key, kind |-> recs[i].kind]]

InitPartB(bound) ==
    /\ InitCommon
    /\ pc = "loop"
    /\ paused = {1}
    /\ maxPartitionConcurrency \in PartConcurrency
    /\ maxPollRecords = DefaultMaxPollRecords
    /\ cfgTopics = DefaultTopics
    /\ cfgPods = DefaultPods
    /\ batchSize = BatchSizeOf(maxPollRecords)
    /\ \E n \in 1..bound : \E recs \in RecordsOfLen(n) :
         /\ nextOffset = [p \in Partitions |-> IF p = 1 THEN n ELSE 0]
         /\ tasks = [t \in TaskIds |->
                       IF t = 1
                       THEN NewTask(1, BatchOf(1, recs), maxPartitionConcurrency)
                       ELSE NoTask]

InitPart == InitPartB(MaxPartLen)

NextPart == TaskStep

SpecPart == InitPart /\ [][NextPart]_vars

(***************************************************************************)
(* One processPartition call for a batch of two records with the same key  *)
(* (one run) or without key (two runs): a record of any kind and a plain   *)
(* record, in either order.                                                *)
(***************************************************************************)
InitMsg ==
    /\ InitCommon
    /\ pc = "loop"
    /\ paused = {1}
    /\ maxPartitionConcurrency = DefaultMaxPartitionConcurrency
    /\ maxPollRecords = DefaultMaxPollRecords
    /\ cfgTopics = DefaultTopics
    /\ cfgPods = DefaultPods
    /\ batchSize = BatchSizeOf(maxPollRecords)
    /\ nextOffset = [p \in Partitions |-> IF p = 1 THEN 2 ELSE 0]
    /\ \E kd \in MsgKinds, k \in PollKeys, first \in BOOLEAN :
         LET recs == IF first
                     THEN <<[key |-> k, kind |-> kd],
                            [key |-> k, kind |-> PlainKind]>>
                     ELSE <<[key |-> k, kind |-> PlainKind],
                            [key |-> k, kind |-> kd]>>
         IN tasks = [t \in TaskIds |->
                       IF t = 1
                       THEN NewTask(1, BatchOf(1, recs), maxPartitionConcurrency)
                       ELSE NoTask]

NextMsg == TaskStep

SpecMsg == InitMsg /\ [][NextMsg]_vars

(***************************************************************************)
(* One processPartition call under a fair scheduler: the goroutine and its *)
(* workers are scheduled and every handler invocation returns; the context *)
(* may be cancelled at any moment.                                         *)
(***************************************************************************)
InitPartLive == InitPartB(MaxLivePartLen)

NextPartLive ==
    \/ Cancel
    \/ TaskStep

SpecPartLive == InitPartLive /\ [][NextPartLive]_vars /\ WF_vars(TaskStep)

(***************************************************************************)
(* The poll loop against a broker that delivers only nil and kafka.Error   *)
(***************************************************************************)
PollKafkaErrorMany == PollKafkaErrorB(MaxFail)

NextBackoff ==
    \/ Cancel
    \/ Subscribe
    \/ LoopTop
    \/ PbCheck
    \/ PollNil
    \/ PollKafkaErrorMany
    \/ AfterPoll
    \/ SleepWithContext
    \/ Close

SpecBackoff == Init /\ [][NextBackoff]_vars

(***************************************************************************)
(* The subscription of run, for every topic and pod configuration          *)
(***************************************************************************)
InitTopics ==
    /\ InitCommon
    /\ pc = "subscribe"
    /\ paused = {}
    /\ nextOffset = [p \in Partitions |-> 0]
    /\ tasks = [t \in TaskIds |-> NoTask]
    /\ maxPartitionConcurrency = DefaultMaxPartitionConcurrency
    /\ maxPollRecords = DefaultMaxPollRecords
    /\ batchSize = BatchSizeOf(maxPollRecords)
    /\ cfgTopics \in TopicLists
    /\ cfgPods \in PodLists

NextTopics ==
    \/ Subscribe
    \/ Cancel
    \/ LoopTop
    \/ Close

SpecTopics == InitTopics /\ [][NextTopics]_vars

(***************************************************************************)
(* One call of pollBatch: run is subscribed and has just called pollBatch  *)
(* with nothing paused, for every configuration of MaxPollRecords; the     *)
(* context may be cancelled at any moment.                                 *)
(***************************************************************************)
InitPollBatch ==
    /\ pc = "pbCheck"
    /\ retval = "none"
    /\ subscribed = TRUE
    /\ ctxDone = FALSE
    /\ observed = FALSE
    /\ batch = newMessageBatch
    /\ pollErr = "nil"
    /\ lastEv = "none"
    /\ pollTimeout = 0
    /\ currentInterval = InitialInterval
    /\ sleepDuration = 0
    /\ failStreak = 0
    /\ todo = {}
    /\ paused = {}
    /\ nextOffset = [p \in Partitions |-> 0]
    /\ errs = 0
    /\ stored = [p \in Partitions |-> <<>>]
    /\ closeCount = 0
    /\ topics = <<>>
    /\ tasks = [t \in TaskIds |-> NoTask]
    /\ fatal = FALSE
    /\ maxPartitionConcurrency = DefaultMaxPartitionConcurrency
    /\ maxPollRecords \in PollRecordsConfigs
    /\ cfgTopics = DefaultTopics
    /\ cfgPods = DefaultPods
    /\ batchSize = BatchSizeOf(maxPollRecords)

PollMessageInBatch == PollMessageB(MaxPollBatchRecords)

NextPollBatch ==
    \/ Cancel
    \/ PbCheck
    \/ PollNil
    \/ PollMessageInBatch
    \/ PollBadMessage
    \/ PollKafkaError
    \/ PollAssigned
    \/ PollRevoked
    \/ PollStats

SpecPollBatch == InitPollBatch /\ [][NextPollBatch]_vars

(***************************************************************************)
(* The consumer under a fair scheduler: the goroutine of run is scheduled, *)
(* consumer.Poll returns within its timeout and the sleep timer fires.     *)
(***************************************************************************)
PollMessageLive == PollMessageB(MaxLiveRecords)

RunStepLive ==
    \/ Subscribe
    \/ LoopTop
    \/ PbCheck
    \/ PollNil
    \/ PollMessageLive
    \/ PollBadMessage
    \/ PollKafkaError
    \/ PollAssigned
    \/ PollRevoked
    \/ PollStats
    \/ AfterPoll
    \/ SleepWithContext
    \/ Dispatch
    \/ Close

NextLive ==
    \/ Cancel
    \/ RunStepLive
    \/ TaskStep

SpecLive == Init /\ [][NextLive]_vars /\ WF_vars(RunStepLive)

(***************************************************************************)
(* Vocabulary of the properties                                            *)
(***************************************************************************)
Done == {"ok", "failed", "skipped"}
Range(sq) == {sq[i] : i \in DOMAIN sq}
ActiveTasks == {t \in TaskIds : Active(t)}
Handled(T) == \A i \in DOMAIN T.status : T.status[i].st \in Done
FailedIn(T) == \E i \in DOMAIN T.status : T.status[i].st = "failed"
AllStored(T) ==
    \A i \in DOMAIN T.messages : T.messages[i].offset \in Range(stored[T.tp])
Returned == pc \in {"returned", "closed"}

TypeOK ==
    /\ pc \in {"subscribe", "loop", "pbCheck", "pbPoll", "polled", "sleep",
               "dispatch", "returned", "closed"}
    /\ retval \in {"none", "subscribeErr", "ctxErr"}
    /\ paused \subseteq Partitions
    /\ todo \subseteq Partitions

(***************************************************************************)
(* C1: within one processPartition call, of two records of the batch that  *)
(* carry the same non-empty key the later one is not handed to             *)
(* handleMessage before the handling of the earlier one is complete        *)
(* (handler returned, or record skipped), for every worker count and every *)
(* interleaving of the workers.                                            *)
(***************************************************************************)
C1_KeyOrder ==
    \A t \in ActiveTasks :
        LET T == tasks[t] IN
        \A i, j \in DOMAIN T.messages :
            (i < j /\ T.messages[i].key # ""
                   /\ T.messages[i].key = T.messages[j].key)
            => (T.status[j].st # "pending" => T.status[i].st \in Done)

\* two workers, and the second record of a key is in the handler after the
\* first one was handled
C1_Witness ==
    \E t \in ActiveTasks :
        LET T == tasks[t] IN
        /\ Cardinality(DOMAIN T.workers) >= 2
        /\ \E i, j \in DOMAIN T.messages :
             /\ i < j
             /\ T.messages[i].key # ""
             /\ T.messages[i].key = T.messages[j].key
             /\ T.status[i].st \in Done
             /\ T.status[j].st = "inHandler"

(***************************************************************************)
(* C2: no offset of a record of a partition's batch is handed to           *)
(* StoreMessage before the handling of every record of that batch has      *)
(* finished.                                                               *)
(***************************************************************************)
C2_NoStoreBeforeHandled ==
    \A t \in ActiveTasks :
        LET T == tasks[t] IN
        (\E i \in DOMAIN T.messages :
            T.messages[i].offset \in Range(stored[T.tp]))
        => Handled(T)

\* the first offset of a batch of several records is stored, one record of
\* the batch having failed in the handler
C2_Witness ==
    \E t \in ActiveTasks :
        LET T == tasks[t] IN
        /\ T.pc = "store"
        /\ T.si = 2
        /\ Len(T.messages) >= 2
        /\ FailedIn(T)
        /\ T.messages[1].offset \in Range(stored[T.tp])

C4State ==
    \A t \in ActiveTasks :
        LET T == tasks[t] IN
        /\ T.tp \in paused
        /\ T.pc = "write" => T.si = 1
        /\ T.pc \in {"store", "resume"} => Handled(T)
        /\ T.pc = "resume" => T.si = Len(T.messages) + 1

C4Step ==
    /\ \A p \in Partitions :
          (p \in paused /\ p \notin paused')
          => \E t \in ActiveTasks : /\ tasks[t].tp = p
                                    /\ tasks[t].pc = "resume"
                                    /\ tasks'[t] = NoTask
    /\ \A t \in ActiveTasks :
          tasks'[t] = NoTask
          => (tasks[t].pc = "resume" /\ tasks[t].tp \notin paused')
    /\ \A t \in TaskIds :
          (~Active(t) /\ tasks'[t] # NoTask)
          => /\ pc = "dispatch"
             /\ tasks'[t].tp \notin paused
             /\ tasks'[t].tp \in paused'

C5State ==
    \A t \in ActiveTasks :
        LET T == tasks[t] IN
        FailedIn(T) =>
            /\ T.pc \in {"store", "resume"} => Handled(T)
            /\ T.pc = "resume" => AllStored(T)

C5Step ==
    \A t \in ActiveTasks :
        /\ (/\ tasks'[t] # NoTask
            /\ \E i \in DOMAIN tasks[t].status :
                 /\ tasks[t].status[i].st # "failed"
                 /\ tasks'[t].status[i].st = "failed")
           => UNCHANGED <<pc, retval, currentInterval, sleepDuration,
                          failStreak, fatal, paused, stored>>
        /\ (FailedIn(tasks[t]) /\ tasks'[t] = NoTask)
           => (tasks[t].pc = "resume" /\ tasks[t].tp \notin paused')

C5_HandlerErrorSwallowed == [][C5State' /\ C5Step]_vars

\* the first record of a key run failed, the second was handled after it,
\* and both offsets are stored
C5_Witness ==
    \E t \in ActiveTasks :
        LET T == tasks[t] IN
        /\ T.pc = "resume"
        /\ Len(T.messages) = 2
        /\ T.messages[1].key = "a"
        /\ T.messages[2].key = "a"
        /\ T.status[1].st = "failed"
        /\ T.status[2].st = "ok"
        /\ AllStored(T)

(***************************************************************************)
(* C6: the handler is invoked at most once for each polled record, exactly *)
(* once for each record of a dispatched batch that passes the decoding and *)
(* group-id checks and never for one that does not; a record is in one     *)
(* goroutine only, and once its offset is stored it is not handled again.  *)
(***************************************************************************)
C6_HandledOnce ==
    \A t \in ActiveTasks :
        LET T == tasks[t] IN
        /\ \A i \in DOMAIN T.messages :
             /\ T.status[i].calls <= 1
             /\ (T.status[i].calls = 1)
                    <=> (T.status[i].st \in {"inHandler", "ok", "failed"})
             /\ T.status[i].calls = 1 => PassesChecks(T.messages[i])
             /\ T.pc \in {"store", "resume"}
                    => T.status[i].calls =
                          (IF PassesChecks(T.messages[i]) THEN 1 ELSE 0)
             /\ T.messages[i].offset \in Range(stored[T.tp])
                    => T.pc \in {"store", "resume"}
        /\ \A u \in ActiveTasks \ {t} :
             tasks[u].tp = T.tp
             => Range(tasks[u].messages) \cap Range(T.messages) = {}

\* a batch is done in which one record failed in its single invocation and
\* another was skipped without invocation
C6_Witness ==
    \E t \in ActiveTasks :
        LET T == tasks[t] IN
        /\ T.pc = "resume"
        /\ \E i, j \in DOMAIN T.messages :
             /\ T.status[i].st = "failed"
             /\ T.status[i].calls = 1
             /\ T.status[j].st = "skipped"
             /\ T.status[j].calls = 0

(***************************************************************************)
(* C7: once subscribed, run returns only the context's error and only when *)
(* the context is cancelled, however many polls fail in a row; the         *)
(* transport is closed exactly once, after run returned.                   *)
(***************************************************************************)
C7_ReturnsOnlyOnCancel ==
    /\ (Returned /\ subscribed) => (retval = "ctxErr" /\ ctxDone)
    /\ ~Returned => retval = "none"
    /\ closeCount = (IF pc = "closed" THEN 1 ELSE 0)

\* three polls failed in a row, then the context was cancelled, run returned
\* its error and the transport was closed
C7_Witness ==
    /\ pc = "closed"
    /\ retval = "ctxErr"
    /\ failStreak >= 3
    /\ errs >= 3
    /\ closeCount = 1

(***************************************************************************)
(* C8: a kafka.Error ends pollBatch; with at least one record in the batch *)
(* pollBatch returns the batch and no error, and run resets the backoff,   *)
(* does not sleep and pauses and starts a goroutine for every partition of *)
(* the batch; with an empty batch pollBatch returns an error and run       *)
(* sleeps for the next backoff interval and dispatches nothing.            *)
(***************************************************************************)
C8Step ==
    /\ errs' # errs
       => /\ pc' = "polled"
          /\ batch' = batch
          /\ pollErr' = (IF batch.messageCount > 0 THEN "nil" ELSE "kafka")
    /\ (pc = "polled" /\ lastEv = "error" /\ pc' # "polled")
       => IF batch.messageCount > 0
          THEN /\ pc' = "dispatch"
               /\ todo' = DOMAIN batch.messages
               /\ currentInterval' = InitialInterval
               /\ failStreak' = 0
               /\ sleepDuration' = sleepDuration
          ELSE /\ pc' = "sleep"
               /\ sleepDuration' = currentInterval
               /\ UNCHANGED <<tasks, paused>>
    /\ (pc \in {"polled", "sleep"})
       => /\ paused' \subseteq paused
          /\ \A t \in TaskIds : ~Active(t) => tasks'[t] = NoTask
    /\ (pc = "dispatch" /\ pc' # "dispatch") => (pc' = "loop" /\ todo' = {})
    /\ (pc = "dispatch" /\ todo' # todo)
       => \E tp \in todo :
             /\ todo' = todo \ {tp}
             /\ tp \in paused'
             /\ \E t \in TaskIds :
                   /\ ~Active(t)
                   /\ tasks'[t] # NoTask
                   /\ tasks'[t].tp = tp
                   /\ tasks'[t].messages = batch.messages[tp]

C8_PartialBatchOnError == [][C8Step]_vars

\* pollBatch has returned, without error, a batch with records of two
\* partitions that a kafka.Error cut short
C8_Witness ==
    /\ pc = "polled"
    /\ lastEv = "error"
    /\ pollErr = "nil"
    /\ batch.messageCount = 2
    /\ Cardinality(DOMAIN batch.messages) = 2

C10_CancelStopsRun ==
    /\ (ctxDone /\ subscribed) ~> ((Returned /\ retval = "ctxErr") \/ fatal)
    /\ [](observed => pc \notin {"pbPoll", "dispatch"})
    /\ [][observed => /\ paused' \subseteq paused
                      /\ \A t \in TaskIds : ~Active(t) => tasks'[t] = NoTask]_vars

\* pollBatch returned at its cancellation check and run is in the backoff
\* sleep, which the cancelled context ends
C10_Witness ==
    /\ pc = "sleep"
    /\ observed
    /\ pollErr = "ctx"
    /\ ctxDone

(***************************************************************************)
(* C11: a cancelled context does not abort a processPartition goroutine    *)
(* in flight: under a fair scheduler and with returning handlers the       *)
(* goroutine ends (unless a failing resume ends the process) with the      *)
(* partition resumed and every offset of its batch stored; a goroutine     *)
(* that ends after the cancellation has handled every record of its batch, *)
(* invoked the handler once for every record that passes the checks,       *)
(* stored every offset, and ends by resuming the partition.                *)
(***************************************************************************)
C11_CancelDoesNotAbort ==
    /\ (ctxDone /\ ActiveTasks # {})
          ~> (fatal \/ (/\ ActiveTasks = {}
                        /\ paused = {}
                        /\ \A p \in Partitions : Len(stored[p]) = nextOffset[p]))
    /\ [][\A t \in ActiveTasks :
            (ctxDone /\ tasks'[t] = NoTask)
            => /\ tasks[t].pc = "resume"
               /\ Handled(tasks[t])
               /\ AllStored(tasks[t])
               /\ tasks[t].tp \notin paused'
               /\ \A i \in DOMAIN tasks[t].messages :
                     tasks[t].status[i].calls =
                        (IF PassesChecks(tasks[t].messages[i]) THEN 1 ELSE 0)]_vars

\* the context was cancelled before the handler was invoked for the second
\* record of a batch; both records were handled and both offsets are stored
C11_Witness ==
    \E t \in ActiveTasks :
        LET T == tasks[t] IN
        /\ ctxDone
        /\ T.pc = "resume"
        /\ Len(T.messages) = 2
        /\ T.status[1].st = "ok"
        /\ ~T.status[1].ctxAtCall
        /\ T.status[2].st \in {"ok", "failed"}
        /\ T.status[2].ctxAtCall
        /\ AllStored(T)

(***************************************************************************)
(* C12: a failing Pause or Resume ends the process (log.Fatalf): the step  *)
(* that fails is taken by run in its dispatch loop or by a goroutine at    *)
(* its deferred resume, it starts no goroutine, pauses and resumes         *)
(* nothing and leaves run where it is; nothing happens afterwards, so the  *)
(* call is not retried, and for the partition whose pause failed no        *)
(* goroutine exists and no handler is invoked for its batch; run returns   *)
(* only from the subscription or from the top of its loop, never with the  *)
(* error of Pause or Resume.                                               *)
(***************************************************************************)
C12_PauseResumeFatal ==
    /\ [](pc = "dispatch"
            => \A tp \in todo : /\ tp \notin paused
                                /\ \A t \in ActiveTasks : tasks[t].tp # tp)
    /\ [][fatal => UNCHANGED vars]_vars
    /\ [][(~fatal /\ fatal')
            => /\ UNCHANGED <<loopVars, paused, tasks, stored, closeCount>>
               /\ \/ pc = "dispatch"
                  \/ \E t \in ActiveTasks : tasks[t].pc = "resume"]_vars
    /\ [][retval' # retval
            => /\ pc \in {"subscribe", "loop"}
               /\ retval' \in {"subscribeErr", "ctxErr"}]_vars

\* Pause failed for the second partition of a batch: the process has ended,
\* the first partition's goroutine was started and none for the second
C12_Witness ==
    /\ fatal
    /\ pc = "dispatch"
    /\ Cardinality(DOMAIN batch.messages) = 2
    /\ \E tp \in todo :
          /\ tp \notin paused
          /\ \A t \in ActiveTasks : tasks[t].tp # tp
    /\ \A t \in ActiveTasks : tasks[t].pc = "write"
    /\ ActiveTasks # {}

OwnGroup == {"svc", "SVC"}
Flagged(kind) == kind.hc = "true"
TopicValid(kind) == Len(kind.topic) <= 3
HasObjectKey(kind) == kind.value.valid /\ kind.value.event.content = "\"K\""
Resolves(kind) ==
    /\ kind.value.valid
    /\ Flagged(kind) => (HasObjectKey(kind) /\ kind.store.ok)
ResolvedEvent(kind) ==
    IF Flagged(kind) THEN kind.store.event ELSE kind.value.event
ForOtherGroup(group) == group \notin ({"absent", ""} \cup OwnGroup)

(***************************************************************************)
(* C14: for a record whose groupId header is non-empty and differs, case   *)
(* ignored, from the consumer's group id the handler is not invoked,       *)
(* nothing is logged and nothing is downloaded; for a record whose         *)
(* resolved event carries such a group id the handler is not invoked and   *)
(* no error is logged (a warning is); such records count as handled: the   *)
(* batch passes the barrier and all its offsets are stored.  A record      *)
(* without groupId header, with an empty one or with the consumer's own    *)
(* group id in any case is handed to the handler, provided its topic is    *)
(* valid and its event resolves to one that is not for another group.      *)
(***************************************************************************)
C14_OtherGroupSkipped ==
    \A t \in ActiveTasks :
        LET T == tasks[t] IN
        /\ T.pc = "resume" => AllStored(T)
        /\ \A i \in DOMAIN T.messages :
             LET kind == T.messages[i].kind
                 S == T.status[i]
             IN /\ ForOtherGroup(kind.hg)
                   => /\ S.calls = 0
                      /\ S.st \in {"pending", "skipped"}
                      /\ S.log = "none"
                      /\ S.downloads = 0
                /\ (Resolves(kind) /\ ForOtherGroup(ResolvedEvent(kind).group))
                   => /\ S.calls = 0
                      /\ S.st \in {"pending", "skipped"}
                      /\ TopicValid(kind) => S.log \in {"none", "warn"}
                /\ T.pc \in {"store", "resume"} => S.st \in Done
                /\ (/\ T.pc \in {"store", "resume"}
                    /\ ~ForOtherGroup(kind.hg)
                    /\ TopicValid(kind)
                    /\ Resolves(kind)
                    /\ ~ForOtherGroup(ResolvedEvent(kind).group))
                   => S.calls = 1

\* the first record of a key run carries another group's id: it was skipped
\* without a log entry, the second record was handled, both offsets are stored
C14_Witness ==
    \E t \in ActiveTasks :
        LET T == tasks[t] IN
        /\ T.pc = "resume"
        /\ T.messages[1].key = "a"
        /\ T.messages[1].kind.hg = "other"
        /\ T.status[1].st = "skipped"
        /\ T.status[1].log = "none"
        /\ T.status[2].st = "ok"
        /\ AllStored(T)

(***************************************************************************)
(* C15: when the handler is invoked for a record flagged as compacted      *)
(* event, it is invoked with the event the store returned for the object   *)
(* key in the placeholder's content, after one download; for a record      *)
(* without the flag it is invoked with the event parsed from the payload   *)
(* and nothing is downloaded.  The handler is invoked for a flagged record *)
(* whose store holds an event, if the groupId checks and the topic check   *)
(* pass.                                                                   *)
(***************************************************************************)
C15_LargeEventResolved ==
    \A t \in ActiveTasks :
        LET T == tasks[t] IN
        \A i \in DOMAIN T.messages :
            LET kind == T.messages[i].kind
                S == T.status[i]
            IN /\ (S.calls >= 1 /\ Flagged(kind))
                  => /\ S.arg = kind.store.event
                     /\ S.arg # kind.value.event
                     /\ S.downloads = 1
               /\ (S.calls >= 1 /\ ~Flagged(kind))
                  => S.arg = kind.value.event
               /\ ~Flagged(kind) => S.downloads = 0
               /\ (/\ T.pc \in {"store", "resume"}
                   /\ Flagged(kind)
                   /\ HasObjectKey(kind)
                   /\ kind.store.ok
                   /\ ~ForOtherGroup(kind.hg)
                   /\ TopicValid(kind)
                   /\ ~ForOtherGroup(kind.store.event.group))
                  => S.calls = 1

\* the handler has returned for a compacted record it was given the stored
\* event for
C15_Witness ==
    \E t \in ActiveTasks :
        LET T == tasks[t] IN
        \E i \in DOMAIN T.messages :
            /\ Flagged(T.messages[i].kind)
            /\ T.status[i].st = "ok"
            /\ T.status[i].arg.id = "big"
            /\ T.status[i].downloads = 1

(***************************************************************************)
(* C16: for a record whose payload does not parse, whose topic id is       *)
(* invalid, whose placeholder holds no object key or whose download fails, *)
(* the handler is not invoked and the record is tried once (at most one    *)
(* download); the other record of the batch, in the same run or not, is    *)
(* still handled, and every offset of the batch is stored.                 *)
(***************************************************************************)
C16_DecodeFailureSkipped ==
    \A t \in ActiveTasks :
        LET T == tasks[t] IN
        /\ T.pc = "resume" => AllStored(T)
        /\ \A i \in DOMAIN T.messages :
             LET kind == T.messages[i].kind
                 S == T.status[i]
             IN /\ (~TopicValid(kind) \/ ~Resolves(kind))
                   => /\ S.calls = 0
                      /\ S.st \in {"pending", "skipped"}
                      /\ S.arg = NoEvent
                /\ S.downloads <= 1
                /\ T.pc \in {"store", "resume"}
                   => /\ S.st \in Done
                      /\ kind = PlainKind => S.calls = 1

\* the download for the first record of a key run failed: the record was
\* skipped after one download, the second record of the run was handled and
\* both offsets are stored
C16_Witness ==
    \E t \in ActiveTasks :
        LET T == tasks[t] IN
        /\ T.pc = "resume"
        /\ T.messages[1].key = "a"
        /\ Flagged(T.messages[1].kind)
        /\ ~T.messages[1].kind.store.ok
        /\ T.status[1].st = "skipped"
        /\ T.status[1].downloads = 1
        /\ T.status[1].log = "error"
        /\ T.status[2].st \in {"ok", "failed"}
        /\ T.status[2].calls = 1
        /\ AllStored(T)

(***************************************************************************)
(* C17: no order is enforced between records of distinct keys or without   *)
(* key: a run handed to a worker holds one record without key or records   *)
(* of one key only, so no such record waits behind another in a run; a     *)
(* worker that holds a record for the handler can invoke it whatever the   *)
(* other workers are doing; and a record without key can be sent as soon   *)
(* as a worker is free, whatever is in the handler.  Both orders and       *)
(* overlapping invocations are therefore reachable.                        *)
(***************************************************************************)
C17_NoCrossKeyOrder ==
    \A t \in ActiveTasks :
        LET T == tasks[t] IN
        /\ \A w \in DOMAIN T.workers :
             \A a, b \in Range(T.workers[w].run) :
                a # b => /\ T.messages[a].key # ""
                         /\ T.messages[a].key = T.messages[b].key
        /\ \A w \in DOMAIN T.workers :
             (/\ ~fatal
              /\ T.workers[w].st = "run"
              /\ PassesChecks(T.messages[T.workers[w].run[T.workers[w].i]]))
             => ENABLED HandlerCall(t, w)
        /\ \A w \in DOMAIN T.workers :
             (/\ ~fatal
              /\ T.pc = "write"
              /\ T.wi <= Len(T.messages)
              /\ T.messages[T.wi].key = ""
              /\ T.workers[w].st = "idle")
             => ENABLED SendSingleton(t, w)

\* a batch with keys a, b and a record without key: the last record of the
\* batch was handled first and the handler invocations of the first two
\* overlap
C17_Witness ==
    \E t \in ActiveTasks :
        LET T == tasks[t] IN
        /\ Len(T.messages) = 3
        /\ T.messages[1].key = "a"
        /\ T.messages[2].key = "b"
        /\ T.messages[3].key = ""
        /\ T.status[1].st = "inHandler"
        /\ T.status[2].st = "inHandler"
        /\ T.status[3].st = "ok"

(***************************************************************************)
(* C18: when pollBatch has returned an empty batch and no error, the step  *)
(* of run resets the backoff and goes back to the top of the loop: it      *)
(* pauses and resumes nothing, starts no goroutine, stores no offset, does *)
(* not sleep and does not return.                                          *)
(***************************************************************************)
C18_EmptyBatchLoops ==
    [][(/\ pc = "polled"
        /\ pollErr = "nil"
        /\ batch.messageCount = 0
        /\ pc' # "polled")
       => /\ pc' = "loop"
          /\ currentInterval' = InitialInterval
          /\ failStreak' = 0
          /\ UNCHANGED <<paused, tasks, stored, todo, sleepDuration, retval,
                         nextOffset, closeCount, fatal>>]_vars

\* after a failed poll and its sleep, an empty poll has reset the backoff
\* while the goroutine of an earlier batch is still in flight
C18_Witness ==
    /\ pc = "loop"
    /\ pollErr = "nil"
    /\ batch.messageCount = 0
    /\ sleepDuration = InitialInterval
    /\ currentInterval = InitialInterval
    /\ failStreak = 0
    /\ errs = 1
    /\ ActiveTasks # {}

(***************************************************************************)
(* C19: c.batchSize is config.MaxPollRecords, or 64 when that is not       *)
(* positive; the batch pollBatch builds never holds more than batchSize    *)
(* records; no poll is issued with batchSize records in the batch or with  *)
(* the cancellation seen; pollBatch returns in the step in which a poll    *)
(* returns nil and in the step in which it finds the context cancelled,    *)
(* with the batch accumulated so far.                                      *)
(***************************************************************************)
C19_BatchSizeCap ==
    /\ [](/\ batchSize = (IF maxPollRecords <= 0 THEN 64 ELSE maxPollRecords)
          /\ batch.messageCount <= batchSize
          /\ pc = "pbPoll" => (batch.messageCount < batchSize /\ ~observed))
    /\ [][(pc = "pbCheck" /\ pc' = "pbPoll")
            => (batch.messageCount < batchSize /\ ~ctxDone)]_vars
    /\ [][(pc = "pbCheck" /\ pc' # pc /\ batch.messageCount >= batchSize)
            => (pc' = "polled" /\ pollErr' = "nil" /\ batch' = batch)]_vars
    /\ [][(pc = "pbCheck" /\ pc' # pc /\ batch.messageCount < batchSize
                         /\ ctxDone)
            => (pc' = "polled" /\ pollErr' = "ctx" /\ batch' = batch)]_vars
    /\ [][(pc = "pbPoll" /\ lastEv' = "nil")
            => (pc' = "polled" /\ pollErr' = "nil" /\ batch' = batch)]_vars

\* with MaxPollRecords = 2, pollBatch has returned a full batch of two
\* records while the broker had more to deliver
C19_Witness ==
    /\ pc = "polled"
    /\ maxPollRecords = 2
    /\ batch.messageCount = 2
    /\ pollErr = "nil"
    /\ lastEv = "none"
    /\ ~ctxDone

(***************************************************************************)
(* C20: within one pollBatch call the first consumer.Poll is given the     *)
(* long timeout (5000 ms) and every later Poll of the call the timeout 0.  *)
(* At the loop condition lastEv is "none" in the first iteration of a call *)
(* and the result of the previous Poll in every later one.                 *)
(***************************************************************************)
C20_FirstLongThenZero ==
    [][(pc = "pbCheck" /\ pc' = "pbPoll")
       => pollTimeout' = (IF lastEv = "none" THEN 5000 ELSE 0)]_vars

(***************************************************************************)
(* C21: when writePartitionedMessages has returned, the runs it sent hold  *)
(* every record of the list exactly once; a record without key is a run of *)
(* its own; the records of one non-empty key are one run, in the order of  *)
(* the list; the number of runs is the number of records without key plus  *)
(* the number of distinct non-empty keys.                                  *)
(***************************************************************************)
C21_KeyRuns ==
    \A t \in ActiveTasks :
        LET T == tasks[t]
            idx == DOMAIN T.messages
            keyless == {i \in idx : T.messages[i].key = ""}
            keys == {T.messages[i].key : i \in idx \ keyless}
        IN T.pc \in {"store", "resume"}
           => /\ \A i \in idx :
                    Cardinality({r \in DOMAIN T.sent :
                                   \E j \in DOMAIN T.sent[r] : T.sent[r][j] = i}) = 1
              /\ \A r \in DOMAIN T.sent :
                    /\ T.sent[r] # <<>>
                    /\ \A j, k \in DOMAIN T.sent[r] :
                          j < k => /\ T.sent[r][j] < T.sent[r][k]
                                   /\ T.messages[T.sent[r][j]].key # ""
                                   /\ T.messages[T.sent[r][j]].key
                                         = T.messages[T.sent[r][k]].key
              /\ \A i, j \in idx \ keyless :
                    T.messages[i].key = T.messages[j].key
                    => \E r \in DOMAIN T.sent :
                          {i, j} \subseteq Range(T.sent[r])
              /\ Len(T.sent) = Cardinality(keyless) + Cardinality(keys)

\* a list keyed a, b, a was sent as two runs, the first and third record in
\* one of them
C21_Witness ==
    \E t \in ActiveTasks :
        LET T == tasks[t] IN
        /\ T.pc = "store"
        /\ Len(T.messages) = 3
        /\ T.messages[1].key = "a"
        /\ T.messages[2].key = "b"
        /\ T.messages[3].key = "a"
        /\ Len(T.sent) = 2
        /\ \E r \in DOMAIN T.sent : T.sent[r] = <<1, 3>>

(***************************************************************************)
(* C22: processPartition starts config.MaxPartitionConcurrency workers if  *)
(* that is positive and one worker for each record of the batch otherwise; *)
(* the handler invocations in progress in one goroutine are those of its   *)
(* workers in a call, so never more than the workers; a run that was sent  *)
(* and is not finished is held by exactly one worker, and the handling of  *)
(* a record starts only in the worker that holds its run.                  *)
(***************************************************************************)
C22_WorkerCount ==
    /\ [](\A t \in ActiveTasks :
            LET T == tasks[t]
                calling == {w \in DOMAIN T.workers : T.workers[w].st = "call"}
                inHandler == {i \in DOMAIN T.status :
                                T.status[i].st = "inHandler"}
            IN /\ Cardinality(DOMAIN T.workers)
                    = (IF maxPartitionConcurrency > 0
                       THEN maxPartitionConcurrency ELSE Len(T.messages))
               /\ Cardinality(inHandler) = Cardinality(calling)
               /\ Cardinality(inHandler) <= Cardinality(DOMAIN T.workers)
               /\ \A r \in DOMAIN T.sent :
                     (\E i \in Range(T.sent[r]) : T.status[i].st \notin Done)
                     => Cardinality({w \in DOMAIN T.workers :
                                       T.workers[w].run = T.sent[r]}) = 1
               /\ \A w \in DOMAIN T.workers :
                     T.workers[w].st # "idle"
                     => T.workers[w].run \in Range(T.sent))
    /\ [][\A t \in ActiveTasks :
            tasks'[t] # NoTask
            => \A i \in DOMAIN tasks[t].status :
                  (tasks[t].status[i].st = "pending"
                   /\ tasks'[t].status[i].st # "pending")
                  => \E w \in DOMAIN tasks[t].workers :
                        /\ tasks[t].workers[w].st = "run"
                        /\ tasks[t].workers[w].run[tasks[t].workers[w].i] = i]_vars

\* MaxPartitionConcurrency 2 and three records without key: two are in the
\* handler and the third waits for a worker
C22_Witness ==
    \E t \in ActiveTasks :
        LET T == tasks[t] IN
        /\ maxPartitionConcurrency = 2
        /\ Len(T.messages) = 3
        /\ Cardinality(DOMAIN T.workers) = 2
        /\ T.status[1].st = "inHandler"
        /\ T.status[2].st = "inHandler"
        /\ T.status[3].st = "pending"
        /\ T.wi = 3

(***************************************************************************)
(* C23: processPartition calls storeMessage after the barrier only, once   *)
(* for each record of the batch and in the order of the batch, whatever    *)
(* became of the record: at any moment the offsets stored are those of the *)
(* first si - 1 records of the batch, and at the resume those of the whole *)
(* batch, the last stored being that of the last record polled.            *)
(***************************************************************************)
C23_StoreInPolledOrder ==
    \A t \in ActiveTasks :
        LET T == tasks[t] IN
        /\ stored[T.tp] = [i \in 1..(T.si - 1) |-> T.messages[i].offset]
        /\ T.pc = "write" => T.si = 1
        /\ T.si > 1 => Handled(T)
        /\ T.pc = "resume"
           => /\ Len(stored[T.tp]) = Len(T.messages)
              /\ stored[T.tp][Len(stored[T.tp])]
                    = T.messages[Len(T.messages)].offset

\* a batch whose records were handled, failed and skipped: the three
\* offsets are stored in the order of the batch
C23_Witness ==
    \E t \in ActiveTasks :
        LET T == tasks[t] IN
        /\ T.pc = "resume"
        /\ Len(T.messages) = 3
        /\ T.status[1].st = "ok"
        /\ T.status[2].st = "failed"
        /\ T.status[3].st = "skipped"
        /\ stored[T.tp] = <<0, 1, 2>>

(***************************************************************************)
(* C30: an error of consumer.StoreMessage is logged and nothing else: the  *)
(* step in which it occurs does not end the process and changes nothing of *)
(* run; the store loop goes on with the next record, so that at the resume *)
(* storeMessage was called for every record of the batch in order, and the *)
(* goroutine ends by resuming the partition.                               *)
(***************************************************************************)
C30_StoreFailureNotFatal ==
    /\ [](\A t \in ActiveTasks :
            LET T == tasks[t] IN
            (\E i \in DOMAIN T.status : T.status[i].storeErr)
            => /\ T.pc \in {"store", "resume"}
               /\ T.pc = "store" => T.si <= Len(T.messages)
               /\ T.pc = "resume"
                  => stored[T.tp] = [i \in DOMAIN T.messages |->
                                        T.messages[i].offset])
    /\ [][\A t \in ActiveTasks :
            /\ (/\ tasks'[t] # NoTask
                /\ \E i \in DOMAIN tasks[t].status :
                      ~tasks[t].status[i].storeErr
                      /\ tasks'[t].status[i].storeErr)
               => /\ UNCHANGED <<loopVars, fatal, paused>>
                  /\ tasks'[t].si = tasks[t].si + 1
            /\ (/\ tasks'[t] = NoTask
                /\ \E i \in DOMAIN tasks[t].status : tasks[t].status[i].storeErr)
               => (tasks[t].pc = "resume" /\ tasks[t].tp \notin paused')]_vars

\* consumer.StoreMessage failed for the first record of a batch of three;
\* it was called for the second and the third all the same
C30_Witness ==
    \E t \in ActiveTasks :
        LET T == tasks[t] IN
        /\ T.pc = "resume"
        /\ Len(T.messages) = 3
        /\ T.status[1].storeErr
        /\ ~T.status[2].storeErr
        /\ ~T.status[3].storeErr
        /\ stored[T.tp] = <<0, 1, 2>>

(***************************************************************************)
(* C24: run never waits for a processPartition goroutine or for the        *)
(* statistics report: wherever run stands, its next step can be taken      *)
(* whatever the goroutines in flight are doing (a poll can return, a       *)
(* partition of the batch can be paused and its goroutine started), and    *)
(* after a *kafka.Stats event pollBatch is back at its loop condition; a   *)
(* goroutine waits for nothing but its own handler invocations.  So a      *)
(* batch of partition Q is polled, dispatched and stored while a handler   *)
(* invocation for partition P has not returned.                            *)
(***************************************************************************)
C24_LoopNeverWaits ==
    /\ ~fatal
       => /\ pc = "loop" => ENABLED LoopTop
          /\ pc = "pbCheck" => ENABLED PbCheck
          /\ pc = "pbPoll" => ENABLED PollNil
          /\ pc = "polled" => ENABLED AfterPoll
          /\ pc = "sleep" => ENABLED SleepWithContext
          /\ pc = "dispatch" => ENABLED Dispatch
          /\ pc = "returned" => ENABLED Close
    /\ lastEv = "stats" => pc = "pbCheck"
    /\ \A t \in ActiveTasks :
          ~fatal
          => \/ \E w \in DOMAIN tasks[t].workers : tasks[t].workers[w].st = "call"
             \/ ENABLED WriteKeyed(t)
             \/ ENABLED Barrier(t)
             \/ ENABLED StoreMessage(t)
             \/ ENABLED Resume(t)
             \/ \E w \in WorkerIds :
                   \/ ENABLED SendSingleton(t, w)
                   \/ ENABLED SendKeyRun(t, w)
                   \/ ENABLED HandleSkip(t, w)
                   \/ ENABLED HandlerCall(t, w)

\* the handler has not returned for the record of one partition; the last
\* batch run polled and dispatched holds the other partition only, and the
\* goroutine of that batch has stored its offset
C24_Witness ==
    \E t, u \in ActiveTasks :
        /\ tasks[t].tp # tasks[u].tp
        /\ tasks[t].status[1].st = "inHandler"
        /\ stored[tasks[t].tp] = <<>>
        /\ pc = "loop"
        /\ DOMAIN batch.messages = {tasks[u].tp}
        /\ tasks[u].messages = batch.messages[tasks[u].tp]
        /\ tasks[u].pc = "resume"
        /\ stored[tasks[u].tp] = <<0>>

(***************************************************************************)
(* Topic names a broker can hold, as sequences of pieces, and what a       *)
(* subscription pattern selects: a pattern that starts with "^" is a       *)
(* regular expression, any other pattern is the name of one topic.  The    *)
(* pieces of a name are not empty, so ".+" stands for one piece or more    *)
(* and ".*" for any number of pieces.                                      *)
(***************************************************************************)
OrgNames == {"acme"}
BrokerTopics ==
    UNION {{<<n>>, <<"x", n>>} : n \in TopicNames}
    \cup UNION {{<<n, "__", p>>, <<n, "__", p, "__">>} :
                    n \in TopicNames, p \in PodNames}
    \cup {<<n, "__", p, "__", o>> :
              n \in TopicNames, p \in PodNames, o \in OrgNames}
    \cup {<<n, "__", p, "__", o, "__", "v2">> :
              n \in TopicNames, p \in PodNames, o \in OrgNames}

HasPrefix(name, prefix) ==
    /\ Len(name) >= Len(prefix)
    /\ SubSeq(name, 1, Len(prefix)) = prefix

PatternMatches(pattern, name) ==
    IF pattern # <<>> /\ Head(pattern) = "^"
    THEN LET body == Tail(pattern)
             last == body[Len(body)]
             prefix == SubSeq(body, 1, Len(body) - 1)
         IN  CASE last = ".+" -> HasPrefix(name, prefix)
                                    /\ Len(name) > Len(prefix)
               [] last = ".*" -> HasPrefix(name, prefix)
               [] OTHER -> HasPrefix(name, body)
    ELSE name = pattern

\* the number of patterns the descriptors before the i-th one produced
RECURSIVE PatternsBefore(_)
PatternsBefore(i) ==
    IF i <= 1 THEN 0
    ELSE PatternsBefore(i - 1)
            + (CASE cfgTopics[i - 1].scope = "global" -> 1
                 [] cfgTopics[i - 1].scope \in {"pod", "org"} -> Len(cfgPods)
                 [] OTHER -> 0)

\* C25 as stated: the pattern of an org-scoped topic and a pod selects every
\* topic name that starts with name__pod__, the name that ends there included
C25_OrgMatchesStar ==
    subscribed
    => \A i \in DOMAIN cfgTopics :
          cfgTopics[i].scope = "org"
          => \A j \in DOMAIN cfgPods :
                /\ PatternsBefore(i) + j \in DOMAIN topics
                /\ \A n \in BrokerTopics :
                      PatternMatches(topics[PatternsBefore(i) + j], n)
                      <=> HasPrefix(n, <<cfgTopics[i].name, "__",
                                         cfgPods[j], "__">>)

\* C25: the patterns run subscribes with are, descriptor by descriptor: for a
\* pod-scoped topic the name name__pod of each configured pod, in the order
\* of the pods; for an org-scoped topic one regular expression per
\* configured pod that selects the topic names made of name__pod__ and at
\* least one more character; for a global topic the bare name, whatever the
\* pods; and nothing for a pod- or org-scoped topic when no pod is configured
C25_TopicPatterns ==
    subscribed
    => /\ Len(topics) = PatternsBefore(Len(cfgTopics) + 1)
       /\ \A i \in DOMAIN cfgTopics :
             LET d == cfgTopics[i]
                 at == PatternsBefore(i)
                 count == PatternsBefore(i + 1) - at
             IN  /\ d.scope = "global"
                    => /\ count = 1
                       /\ topics[at + 1] = <<d.name>>
                 /\ d.scope = "pod"
                    => /\ count = Len(cfgPods)
                       /\ \A j \in DOMAIN cfgPods :
                             topics[at + j] = <<d.name, "__", cfgPods[j]>>
                 /\ d.scope = "org"
                    => /\ count = Len(cfgPods)
                       /\ \A j \in DOMAIN cfgPods :
                             \A n \in BrokerTopics :
                                PatternMatches(topics[at + j], n)
                                <=> /\ HasPrefix(n, <<d.name, "__",
                                                     cfgPods[j], "__">>)
                                    /\ Len(n) > 4
                 /\ (d.scope \in {"pod", "org"} /\ cfgPods = <<>>)
                    => count = 0

\* run subscribed with a pod-scoped topic followed by an org-scoped one, for
\* two different pods: four patterns
C25_Witness ==
    /\ subscribed
    /\ Len(cfgTopics) = 2
    /\ cfgTopics[1].scope = "pod"
    /\ cfgTopics[2].scope = "org"
    /\ Len(cfgPods) = 2
    /\ cfgPods[1] # cfgPods[2]
    /\ Len(topics) = 4
    /\ PatternMatches(topics[4], <<"audit", "__", cfgPods[2], "__", "acme">>)
    /\ ~PatternMatches(topics[4], <<"audit", "__", cfgPods[2], "__">>)

(***************************************************************************)
(* C26: once the deferred close of StartConsumer has run, no goroutine of  *)
(* processPartition calls consumer.StoreMessage (which extends stored) or  *)
(* consumer.Resume (which shrinks paused).                                 *)
(***************************************************************************)
C26_NoUseAfterClose ==
    [][closeCount >= 1 => (stored' = stored /\ paused' = paused)]_vars

(***************************************************************************)
(* C27: processPartition does not deadlock.  Under a fair scheduler and    *)
(* with handlers that return, for every batch and every worker count: the  *)
(* writer hands over every run (each record is sent), then the channel is  *)
(* closed, every worker leaves its loop and wg.Wait() returns (the         *)
(* goroutine reaches its store loop with all workers idle), and the        *)
(* goroutine ends (a failing deferred resume ends the process instead);    *)
(* until then some step of the goroutine or of its workers is enabled.     *)
(***************************************************************************)
C27_DeadlockFree ==
    /\ \A t \in TaskIds :
          (tasks[t].pc = "write")
             ~> (/\ tasks[t].pc = "store"
                 /\ \A w \in DOMAIN tasks[t].workers :
                       tasks[t].workers[w].st = "idle"
                 /\ \A i \in DOMAIN tasks[t].messages :
                       \E r \in DOMAIN tasks[t].sent :
                          i \in Range(tasks[t].sent[r]))
    /\ \A t \in TaskIds :
          (tasks[t].pc = "store") ~> (fatal \/ tasks[t] = NoTask)
    /\ []((ActiveTasks # {} /\ ~fatal) => ENABLED TaskStep)

\* the goroutine of a batch of one run, started with two workers, has passed
\* its barrier: the worker that got no run has left its loop too
C27_Witness ==
    \E t \in ActiveTasks :
        /\ tasks[t].pc = "store"
        /\ Len(tasks[t].workers) = 2
        /\ Len(tasks[t].sent) = 1
        /\ Len(tasks[t].messages) = 2
        /\ \A i \in DOMAIN tasks[t].messages :
              tasks[t].status[i].st \in {"ok", "failed", "skipped"}

(***************************************************************************)
(* C28: a batch that pollBatch returned together with the context error is *)
(* discarded by run: run does not enter its dispatch loop, no goroutine    *)
(* holds a record of the batch, no partition of the batch is paused and no *)
(* offset of the batch is stored; this stays so until the process ends.    *)
(***************************************************************************)
C28_CancelledBatchDiscarded ==
    pollErr = "ctx"
    => /\ pc \in {"polled", "sleep", "loop", "returned", "closed"}
       /\ todo = {}
       /\ \A p \in DOMAIN batch.messages :
             /\ p \notin paused
             /\ \A i \in DOMAIN batch.messages[p] :
                   LET m == batch.messages[p][i] IN
                   /\ \A t \in ActiveTasks :
                         tasks[t].tp = p => m \notin Range(tasks[t].messages)
                   /\ m.offset \notin Range(stored[p])

\* run has returned and the consumer is closed; the last pollBatch returned
\* one record with the context error, after an earlier batch of the same
\* partition was processed: the record was delivered but is not stored
C28_Witness ==
    /\ pc = "closed"
    /\ pollErr = "ctx"
    /\ batch.messageCount = 1
    /\ \E p \in DOMAIN batch.messages :
          /\ batch.messages[p][1].offset = 1
          /\ stored[p] = <<0>>
          /\ nextOffset[p] = 2
    /\ ActiveTasks = {}

(***************************************************************************)
(* C29: in every state of a pollBatch call, messageCount is the sum of the *)
(* lengths of the lists of the batch and every partition of the batch has  *)
(* at least one record.  The batch changes only when Poll returned a       *)
(* message without partition error and with a topic, and then by that one  *)
(* record at the end of the list of its partition.  After a message with a *)
(* partition error or without topic, an assignment, a revocation or        *)
(* statistics, the batch, the goroutines and the stored offsets are as     *)
(* before and pollBatch is at its loop condition with nothing to return;   *)
(* it polls again unless the context is done or the batch is full.         *)
(***************************************************************************)
NoRecordEvents == {"partitionError", "noTopic", "assigned", "revoked", "stats"}

C29_BatchAccounting ==
    /\ [](/\ batch.messageCount =
                SumOver([p \in DOMAIN batch.messages |->
                            Len(batch.messages[p])], DOMAIN batch.messages)
          /\ \A p \in DOMAIN batch.messages : Len(batch.messages[p]) >= 1
          /\ (lastEv \in NoRecordEvents) => (pc = "pbCheck" /\ pollErr = "nil")
          /\ (/\ lastEv \in NoRecordEvents
              /\ ~ctxDone
              /\ batch.messageCount < batchSize)
             => ENABLED (PbCheck /\ pc' = "pbPoll"))
    /\ [][/\ batch' # batch
             => /\ lastEv' = "message"
                /\ batch'.messageCount = batch.messageCount + 1
                /\ \E q \in DOMAIN batch'.messages :
                      /\ DOMAIN batch'.messages = DOMAIN batch.messages \cup {q}
                      /\ batch'.messages[q] =
                            Append(IF q \in DOMAIN batch.messages
                                   THEN batch.messages[q] ELSE <<>>,
                                   batch'.messages[q][Len(batch'.messages[q])])
                      /\ \A p \in DOMAIN batch.messages \ {q} :
                            batch'.messages[p] = batch.messages[p]
          /\ lastEv' \in NoRecordEvents
             => /\ batch' = batch
                /\ tasks' = tasks
                /\ stored' = stored
                /\ nextOffset' = nextOffset]_vars

\* Poll returned a message without topic after two records of one partition
\* and one of the other were added
C29_Witness ==
    /\ pc = "pbCheck"
    /\ lastEv = "noTopic"
    /\ batch.messageCount = 3
    /\ DOMAIN batch.messages = Partitions
    /\ Len(batch.messages[1]) = 2

====
